---------------------------- MODULE Spec2Model ----------------------------
(* A model of the Pexels API client (package pexels): the client              *)
(* configuration, the nine endpoint bindings, the request pipeline            *)
(* (sendRequest) and the parameter encoder (structToURLValues).               *)
(*                                                                            *)
(* Text (URLs, query strings, header values, bodies, error messages) is a     *)
(* sequence of one-character strings, so that formatting, escaping and        *)
(* containment are computed character by character.                          *)
EXTENDS Integers, Sequences, FiniteSets, TLC

VARIABLES
    client,          \* the shared *Client: BaseURL, Version, ApiKey, HTTPClient
    pc,              \* per caller: "idle", "inflight" (inside HTTPClient.Do), "returned"
    call,            \* per caller: the call in progress (operation, arguments as passed)
    params,          \* per caller: the caller-owned parameter record the binding was handed
    req,             \* per caller: the *http.Request handed to HTTPClient.Do
    got,             \* per caller: what HTTPClient.Do returned to sendRequest
    ret,             \* per caller: the pair (response, error) the binding returned
    transportCalls,  \* number of HTTPClient.Do invocations (the transport's call counter)
    bindingCalls,    \* number of binding calls made
    rejectedCalls,   \* number of binding calls that returned before reaching HTTPClient.Do
    encIn,           \* encoder harness: the struct handed to structToURLValues
    encOut           \* encoder harness: the url.Values it returned

vars == <<client, pc, call, params, req, got, ret, transportCalls, bindingCalls,
          rejectedCalls, encIn, encOut>>

mainVars == <<client, pc, call, params, req, got, ret, transportCalls, bindingCalls,
              rejectedCalls>>

-----------------------------------------------------------------------------
(* Bounds of the model.                                                       *)

MaxPage == 1
MaxCalls == 3
NumCallers == 2

-----------------------------------------------------------------------------
(* Text.                                                                      *)

Nil == [kind |-> "nil"]

\* The printable ASCII characters, in code order starting at 32 (code 96, which a
\* TLA+ string cannot hold, is spelled out).
Printable == <<" ", "!", "\"", "#", "$", "%", "&", "'", "(", ")", "*", "+", ",", "-", ".", "/", "0", "1", "2", "3", "4", "5", "6", "7", "8", "9", ":", ";", "<", "=", ">", "?", "@", "A", "B", "C", "D", "E", "F", "G", "H", "I", "J", "K", "L", "M", "N", "O", "P", "Q", "R", "S", "T", "U", "V", "W", "X", "Y", "Z", "[", "\\", "]", "^", "_", "backquote", "a", "b", "c", "d", "e", "f", "g", "h", "i", "j", "k", "l", "m", "n", "o", "p", "q", "r", "s", "t", "u", "v", "w", "x", "y", "z", "{", "|", "}", "~">>

Code(ch) == 31 + (CHOOSE i \in 1..Len(Printable) : Printable[i] = ch)

DigitChars == <<"0", "1", "2", "3", "4", "5", "6", "7", "8", "9">>
UpperHex == <<"0", "1", "2", "3", "4", "5", "6", "7", "8", "9", "A", "B", "C", "D", "E", "F">>

IsDigit(ch) == \E i \in 1..Len(DigitChars) : DigitChars[i] = ch

DigitVal(ch) == (CHOOSE i \in 1..Len(DigitChars) : DigitChars[i] = ch) - 1

\* strconv: the decimal text of a non-negative integer.
RECURSIVE NatToStr(_)
NatToStr(n) == IF n < 10 THEN <<DigitChars[n + 1]>>
               ELSE NatToStr(n \div 10) \o <<DigitChars[(n % 10) + 1]>>

\* fmt's %d / fmt.Sprint of an int: a minus sign, then the decimal digits.
IntToStr(n) == IF n < 0 THEN <<"-">> \o NatToStr(0 - n) ELSE NatToStr(n)

\* The value of a run of decimal digits.
RECURSIVE DigitsToNat(_)
DigitsToNat(s) == IF s = <<>> THEN 0
                  ELSE 10 * DigitsToNat(SubSeq(s, 1, Len(s) - 1)) + DigitVal(s[Len(s)])

AllDigits(s) == s # <<>> /\ \A i \in 1..Len(s) : IsDigit(s[i])

\* strings.Contains
Contains(s, sub) ==
    \E i \in 0..(Len(s) - Len(sub)) : SubSeq(s, i + 1, i + Len(sub)) = sub

HasPrefix(s, pre) == Len(s) >= Len(pre) /\ SubSeq(s, 1, Len(pre)) = pre

\* Byte-wise lexicographic order, as sort.Strings uses: a and b agree before
\* position i, where a has ended or holds the smaller byte.
StrLess(a, b) ==
    \E i \in 1..Len(b) :
        /\ i <= Len(a) + 1
        /\ SubSeq(a, 1, i - 1) = SubSeq(b, 1, i - 1)
        /\ (i = Len(a) + 1 \/ Code(a[i]) < Code(b[i]))

\* strings.Split on a one-character separator: the pieces between its occurrences.
Split(s, sep) ==
    LET P == {i \in 1..Len(s) : s[i] = sep}
        n == Cardinality(P)
        cut(k) == IF k = 0 THEN 0
                  ELSE IF k = n + 1 THEN Len(s) + 1
                  ELSE CHOOSE i \in P : Cardinality({j \in P : j <= i}) = k
    IN [k \in 1..(n + 1) |-> SubSeq(s, cut(k - 1) + 1, cut(k) - 1)]

Range(f) == {f[i] : i \in DOMAIN f}

-----------------------------------------------------------------------------
(* net/url: query escaping and url.Values.                                    *)

\* url.shouldEscape in encodeQueryComponent mode: letters, digits and -_.~ pass.
Unreserved(ch) ==
    \/ (Code(ch) >= 48 /\ Code(ch) <= 57)
    \/ (Code(ch) >= 65 /\ Code(ch) <= 90)
    \/ (Code(ch) >= 97 /\ Code(ch) <= 122)
    \/ ch \in {"-", "_", ".", "~"}

EscapeChar(ch) ==
    IF Unreserved(ch) THEN <<ch>>
    ELSE IF ch = " " THEN <<"+">>
    ELSE <<"%", UpperHex[(Code(ch) \div 16) + 1], UpperHex[(Code(ch) % 16) + 1]>>

\* url.QueryEscape
RECURSIVE QueryEscape(_)
QueryEscape(s) ==
    IF s = <<>> THEN <<>>
    ELSE IF Len(s) = 1 THEN EscapeChar(s[1])
    ELSE LET m == Len(s) \div 2
         IN QueryEscape(SubSeq(s, 1, m)) \o QueryEscape(SubSeq(s, m + 1, Len(s)))

\* url.Values{}: a mapping from key to value (Set keeps one value per key).
EmptyValues == [k \in {} |-> <<>>]

\* Faulty variant: key and value change places.
ValuesSetSwapped(val, k, v) == [x \in (DOMAIN val) \cup {v} |-> IF x = v THEN k ELSE val[x]]

\* url.Values.Set
ValuesSet(val, k, v) == [x \in (DOMAIN val) \cup {k} |-> IF x = k THEN v ELSE val[x]]

RECURSIVE SortedKeys(_)
SortedKeys(S) ==
    IF S = {} THEN <<>>
    ELSE LET m == CHOOSE x \in S : \A y \in S \ {x} : StrLess(x, y)
         IN <<m>> \o SortedKeys(S \ {m})

RECURSIVE EncodePairs(_, _)
EncodePairs(val, keys) ==
    IF keys = <<>> THEN <<>>
    ELSE QueryEscape(keys[1]) \o <<"=">> \o QueryEscape(val[keys[1]])
         \o (IF Len(keys) > 1 THEN <<"&">> \o EncodePairs(val, Tail(keys)) ELSE <<>>)

\* url.Values.Encode: "k=v" pairs, keys sorted, both sides query-escaped, joined by "&".
Encode(val) == EncodePairs(val, SortedKeys(DOMAIN val))

-----------------------------------------------------------------------------
(* The parameter records and their url tags.                                  *)

T_query == <<"q", "u", "e", "r", "y">>
T_orientation == <<"o", "r", "i", "e", "n", "t", "a", "t", "i", "o", "n">>
T_size == <<"s", "i", "z", "e">>
T_color == <<"c", "o", "l", "o", "r">>
T_locale == <<"l", "o", "c", "a", "l", "e">>
T_page == <<"p", "a", "g", "e">>
T_per_page == <<"p", "e", "r", "_", "p", "a", "g", "e">>
T_type == <<"t", "y", "p", "e">>
T_sort == <<"s", "o", "r", "t">>
T_min_width == <<"m", "i", "n", "_", "w", "i", "d", "t", "h">>
T_min_height == <<"m", "i", "n", "_", "h", "e", "i", "g", "h", "t">>
T_min_duration == <<"m", "i", "n", "_", "d", "u", "r", "a", "t", "i", "o", "n">>
T_max_duration == <<"m", "a", "x", "_", "d", "u", "r", "a", "t", "i", "o", "n">>

Fld(name, tag, kind) == [name |-> name, tag |-> tag, kind |-> kind]

GetPhotosParams ==
    << Fld("Query", T_query, "string"), Fld("Orientation", T_orientation, "string"),
       Fld("Size", T_size, "string"), Fld("Color", T_color, "string"),
       Fld("Locale", T_locale, "string"), Fld("Page", T_page, "int"),
       Fld("PerPage", T_per_page, "int") >>

GetCuratedPhotoParams == << Fld("Page", T_page, "int"), Fld("PerPage", T_per_page, "int") >>

GetFeaturedCollectionParams ==
    << Fld("Page", T_page, "int"), Fld("PerPage", T_per_page, "int") >>

GetCollectionMediaParams ==
    << Fld("Type", T_type, "string"), Fld("Sort", T_sort, "string"),
       Fld("Page", T_page, "int"), Fld("PerPage", T_per_page, "int") >>

GetVideosParams ==
    << Fld("Query", T_query, "string"), Fld("Orientation", T_orientation, "string"),
       Fld("Size", T_size, "string"), Fld("Locale", T_locale, "string"),
       Fld("Page", T_page, "int"), Fld("PerPage", T_per_page, "int") >>

GetPopularVideosParams ==
    << Fld("MinWidth", T_min_width, "int"), Fld("MinHeight", T_min_height, "int"),
       Fld("MinDuration", T_min_duration, "int"), Fld("MaxDuration", T_max_duration, "int"),
       Fld("Page", T_page, "int"), Fld("PerPage", T_per_page, "int") >>

\* What reflect exposes of a struct value: per field, in declaration order, the
\* url tag, the kind and the value.
Reflect(type, s) ==
    [i \in 1..Len(type) |->
        [tag |-> type[i].tag, kind |-> type[i].kind, val |-> s[type[i].name]]]

\* fmt.Sprint(field.Interface())
Sprint(field) ==
    IF field.kind = "int" THEN IntToStr(field.val)
    ELSE IF field.kind = "bool" THEN (IF field.val THEN <<"t", "r", "u", "e">> ELSE <<"f", "a", "l", "s", "e">>)
    ELSE field.val

\* Faulty variant: the zero value of an int field is not left out.
FieldIncludedKeepsZero(field) ==
    /\ field.tag # <<>>
    /\ \/ field.kind = "int"
       \/ (field.kind = "string" /\ Sprint(field) # <<>>)

FieldIncluded(field) ==
    /\ field.tag # <<>>
    /\ \/ (field.kind = "int" /\ Sprint(field) # <<"0">>)
       \/ (field.kind = "string" /\ Sprint(field) # <<>>)

RECURSIVE structLoop(_, _, _)
structLoop(s, i, val) ==
    IF i > Len(s) THEN val
    ELSE structLoop(s, i + 1,
                    IF FieldIncluded(s[i]) THEN ValuesSet(val, s[i].tag, Sprint(s[i]))
                    ELSE val)

structToURLValues(s) == structLoop(s, 1, EmptyValues)

-----------------------------------------------------------------------------
(* The client configuration.                                                  *)

\* The package-level defaults NewClient copies.
BaseURL == <<"h", "t", "t", "p", "s", ":", "/", "/", "a", "p", "i", ".", "p", "e", "x", "e", "l", "s", ".", "c", "o", "m", "/">>
Version == <<"v", "1">>

NewClient(apiKey) ==
    [BaseURL |-> BaseURL,
     ApiKey |-> apiKey,
     HTTPClient |-> [Timeout |-> 2 * 60],
     Version |-> Version]

\* The key the caller constructs the client with.
TheApiKey == <<"K", "E", "Y">>

-----------------------------------------------------------------------------
(* Requests, responses, errors.                                               *)

NoCall == [op |-> "none"]
NoID == <<>>
NoParams == [none |-> TRUE]
NoReq == [method |-> "none"]
NoOutcome == [kind |-> "none"]
NoRet == [resp |-> [unset |-> TRUE], err |-> [unset |-> TRUE]]

Err(kind, msg) == [kind |-> kind, msg |-> msg]

\* fmt.Errorf("Query field cannot be empty.")
ValidationError == Err("validation", <<"Q", "u", "e", "r", "y", " ", "f", "i", "e", "l", "d", " ", "c", "a", "n", "n", "o", "t", " ", "b", "e", " ", "e", "m", "p", "t", "y", ".">>)

\* Faulty variant: the raw body is left out of the message.
APIErrorNoBody(status, bytes) ==
    Err("api", <<"U", "n", "k", "n", "o", "w", "n", " ", "A", "P", "I", " ", "e", "r", "r", "o", "r", ":", " ">> \o IntToStr(status))

\* fmt.Errorf("Unknown API error: %d %s", res.StatusCode, string(bytes))
APIError(status, bytes) ==
    Err("api", <<"U", "n", "k", "n", "o", "w", "n", " ", "A", "P", "I", " ", "e", "r", "r", "o", "r", ":", " ">> \o IntToStr(status) \o <<" ">> \o bytes)

IsHex(ch) ==
    \/ IsDigit(ch)
    \/ (Code(ch) >= 65 /\ Code(ch) <= 70)
    \/ (Code(ch) >= 97 /\ Code(ch) <= 102)

\* url.Parse rejects a path with a "%" that does not start a two-digit hex escape.
BadEscape(path) ==
    \E i \in 1..Len(path) :
        /\ path[i] = "%"
        /\ ~(i + 2 <= Len(path) /\ IsHex(path[i + 1]) /\ IsHex(path[i + 2]))

URLPath(url) == Split(url, "?")[1]

\* The text after the first "?" of a URL ("" when there is none).
URLRawQuery(url) ==
    LET p == URLPath(url)
    IN IF Len(p) = Len(url) THEN <<>> ELSE SubSeq(url, Len(p) + 2, Len(url))

\* http.NewRequest("GET", url, nil): fails when the URL does not parse.
NewRequest(method, url) ==
    IF BadEscape(URLPath(url))
    THEN [req |-> NoReq, err |-> Err("newrequest", <<"i", "n", "v", "a", "l", "i", "d", " ", "U", "R", "L", " ", "e", "s", "c", "a", "p", "e">>)]
    ELSE [req |-> [method |-> method, url |-> url, header |-> [h \in {} |-> <<>>],
                   ctx |-> "background"],
          err |-> Nil]

\* req.WithContext(ctx)
WithContext(r, ctx) == [r EXCEPT !.ctx = ctx]

\* req.Header.Set(name, value)
HeaderSet(r, name, value) ==
    [r EXCEPT !.header =
        [h \in (DOMAIN r.header) \cup {name} |-> IF h = name THEN value ELSE r.header[h]]]

ApplicationJSON == <<"a", "p", "p", "l", "i", "c", "a", "t", "i", "o", "n", "/", "j", "s", "o", "n">>

\* The zero value of each response shape (the fields the model follows).
ZeroValue(shape) ==
    IF shape \in {"GetPhotoResponse", "GetVideosResponse", "GetCollectionsResponse"}
    THEN [shape |-> shape, Page |-> 0]
    ELSE [shape |-> shape]

\* A response body: the bytes the stream delivers, and whether it then fails.
Body(data, fail) == [data |-> data, fail |-> fail]

ReadError == Err("read", <<"u", "n", "e", "x", "p", "e", "c", "t", "e", "d", " ", "E", "O", "F">>)

\* io.ReadAll(res.Body)
ReadAll(body) ==
    IF body.fail THEN [bytes |-> body.data, err |-> ReadError]
    ELSE [bytes |-> body.data, err |-> Nil]

J_null == <<"n", "u", "l", "l">>
J_pagePrefix == <<"\"", "p", "a", "g", "e", "\"", ":">>

\* A JSON string literal without escapes.
J_quote == <<"\"">>
IsJSONString(v) ==
    /\ Len(v) >= 2
    /\ v[1] = J_quote[1] /\ v[Len(v)] = J_quote[1]
    /\ \A i \in 2..(Len(v) - 1) : v[i] # J_quote[1]

\* Faulty variant: a member of the wrong type is skipped without an error.
DecodeSkipsMistyped(body, vals) ==
    LET d == body.data
        isObject == Len(d) >= 2 /\ d[1] = "{" /\ d[Len(d)] = "}"
        inner == IF Len(d) >= 2 THEN SubSeq(d, 2, Len(d) - 1) ELSE <<>>
        mem == IF inner = <<>> THEN <<>> ELSE Split(inner, ",")
        value(i) == IF HasPrefix(mem[i], J_pagePrefix)
                    THEN SubSeq(mem[i], Len(J_pagePrefix) + 1, Len(mem[i])) ELSE <<>>
        nums == {i \in 1..Len(mem) : AllDigits(value(i))}
        strs == {i \in 1..Len(mem) : IsJSONString(value(i))}
        last == CHOOSE i \in nums : \A k \in nums : k <= i
        stored == IF "Page" \in DOMAIN vals /\ nums # {}
                  THEN [vals EXCEPT !.Page = DigitsToNat(value(last))] ELSE vals
    IN IF d = <<>> /\ body.fail THEN [vals |-> vals, err |-> ReadError]
       ELSE IF d = <<>> THEN [vals |-> vals, err |-> Err("decode", <<"E", "O", "F">>)]
       ELSE IF d = J_null THEN [vals |-> vals, err |-> Nil]
       ELSE IF isObject /\ nums \cup strs = 1..Len(mem)
            THEN IF "Page" \in DOMAIN vals /\ strs # {}
                 THEN [vals |-> stored, err |-> Nil]
                 ELSE [vals |-> stored, err |-> Nil]
       ELSE [vals |-> vals, err |-> Err("decode", <<"i", "n", "v", "a", "l", "i", "d", " ", "c", "h", "a", "r", "a", "c", "t", "e", "r">>)]

\* json.NewDecoder(res.Body).Decode(&vals) into a struct destination, for bodies
\* that are empty, null, not JSON, or an object of "page" members, each a number
\* or a string. Members are stored in order; a string for the int field Page is
\* a type error that leaves what was stored; a destination without a page field
\* ignores the members.
Decode(body, vals) ==
    LET d == body.data
        isObject == Len(d) >= 2 /\ d[1] = "{" /\ d[Len(d)] = "}"
        inner == IF Len(d) >= 2 THEN SubSeq(d, 2, Len(d) - 1) ELSE <<>>
        mem == IF inner = <<>> THEN <<>> ELSE Split(inner, ",")
        value(i) == IF HasPrefix(mem[i], J_pagePrefix)
                    THEN SubSeq(mem[i], Len(J_pagePrefix) + 1, Len(mem[i])) ELSE <<>>
        nums == {i \in 1..Len(mem) : AllDigits(value(i))}
        strs == {i \in 1..Len(mem) : IsJSONString(value(i))}
        last == CHOOSE i \in nums : \A k \in nums : k <= i
        stored == IF "Page" \in DOMAIN vals /\ nums # {}
                  THEN [vals EXCEPT !.Page = DigitsToNat(value(last))] ELSE vals
    IN IF d = <<>> /\ body.fail THEN [vals |-> vals, err |-> ReadError]
       ELSE IF d = <<>> THEN [vals |-> vals, err |-> Err("decode", <<"E", "O", "F">>)]
       ELSE IF d = J_null THEN [vals |-> vals, err |-> Nil]
       ELSE IF isObject /\ nums \cup strs = 1..Len(mem)
            THEN IF "Page" \in DOMAIN vals /\ strs # {}
                 THEN [vals |-> stored, err |-> Err("decode", <<"j", "s", "o", "n", ":", " ", "c", "a", "n", "n", "o", "t", " ", "u", "n", "m", "a", "r", "s", "h", "a", "l", " ", "s", "t", "r", "i", "n", "g">>)]
                 ELSE [vals |-> stored, err |-> Nil]
       ELSE [vals |-> vals, err |-> Err("decode", <<"i", "n", "v", "a", "l", "i", "d", " ", "c", "h", "a", "r", "a", "c", "t", "e", "r">>)]

\* Faulty variant: every status outside 200..299 is an error status.
IsErrorStatusNon2xx(status) == status < 200 \/ status >= 300

\* res.StatusCode < http.StatusOK || res.StatusCode >= http.StatusBadRequest
IsErrorStatus(status) == status < 200 \/ status >= 400

\* Faulty variant: the transport error is wrapped in a new error.
sendRequestWrapsError(oc, vals) ==
    IF oc.err # Nil
    THEN [err |-> Err("transport", <<"r", "e", "q", "u", "e", "s", "t", " ", "f", "a", "i", "l", "e", "d", ":", " ">> \o oc.err.msg), vals |-> vals]
    ELSE IF IsErrorStatus(oc.res.StatusCode)
         THEN LET rd == ReadAll(oc.res.Body)
              IN IF rd.err # Nil THEN [err |-> rd.err, vals |-> vals]
                 ELSE [err |-> APIError(oc.res.StatusCode, rd.bytes), vals |-> vals]
         ELSE LET d == Decode(oc.res.Body, vals)
              IN IF d.err # Nil THEN [err |-> d.err, vals |-> d.vals]
                 ELSE [err |-> Nil, vals |-> d.vals]

\* sendRequest after c.HTTPClient.Do(req) has returned `oc`: the error it returns
\* and the value left in the destination.
sendRequest(oc, vals) ==
    IF oc.err # Nil THEN [err |-> oc.err, vals |-> vals]
    ELSE IF IsErrorStatus(oc.res.StatusCode)
         THEN LET rd == ReadAll(oc.res.Body)
              IN IF rd.err # Nil THEN [err |-> rd.err, vals |-> vals]
                 ELSE [err |-> APIError(oc.res.StatusCode, rd.bytes), vals |-> vals]
         ELSE LET d == Decode(oc.res.Body, vals)
              IN IF d.err # Nil THEN [err |-> d.err, vals |-> d.vals]
                 ELSE [err |-> Nil, vals |-> d.vals]

\* Faulty variant: the destination is returned together with the error.
BindingResultKeepsResp(r) ==
    IF r.err # Nil THEN [resp |-> r.vals, err |-> r.err]
    ELSE [resp |-> r.vals, err |-> Nil]

\* The tail of every binding: if err != nil { return nil, err }; return &resp, nil
BindingResult(r) ==
    IF r.err # Nil THEN [resp |-> Nil, err |-> r.err]
    ELSE [resp |-> r.vals, err |-> Nil]

-----------------------------------------------------------------------------
(* The inputs the callers and the transport draw from.                        *)

Ctxs == {"background", "canceled"}
QueryVals == {<<>>, <<"c", "a", "t">>, <<"a", " ", "&">>}
OptVals == {<<>>, <<"l", "a", "r", "g", "e">>}
PageVals == (0 - 1)..MaxPage
PerPageVals == {0, 10}
IDs == {<<>>, <<"4", "2">>, <<"%">>}

PhotoInputs ==
    [Query : QueryVals, Orientation : OptVals, Size : {<<>>}, Color : OptVals,
     Locale : {<<>>}, Page : PageVals, PerPage : PerPageVals]

VideoInputs ==
    [Query : QueryVals, Orientation : {<<>>}, Size : OptVals, Locale : {<<>>},
     Page : PageVals, PerPage : PerPageVals]

PageInputs == [Page : PageVals, PerPage : PerPageVals]

MediaInputs ==
    [Type : {<<>>, <<"p", "h", "o", "t", "o", "s">>}, Sort : {<<>>}, Page : PageVals, PerPage : PerPageVals]

PopularInputs ==
    [MinWidth : {0, 10}, MinHeight : {0}, MinDuration : {0}, MaxDuration : {0},
     Page : PageVals, PerPage : PerPageVals]

TimeoutError == Err("transport", <<"t", "i", "m", "e", "o", "u", "t">>)
CanceledError == Err("transport", <<"c", "o", "n", "t", "e", "x", "t", " ", "c", "a", "n", "c", "e", "l", "e", "d">>)

Failed(err) == [err |-> err, res |-> Nil]
Responded(status, body) == [err |-> Nil, res |-> [StatusCode |-> status, Body |-> body]]

Statuses == {199, 200, 299, 300, 399, 400, 404}
B_empty == <<>>
B_object == <<"{", "}">>
B_page == <<"{", "\"", "p", "a", "g", "e", "\"", ":", "2", "}">>
B_notFound == <<"N", "o", "t", " ", "f", "o", "u", "n", "d">>
B_mistyped == <<"{", "\"", "p", "a", "g", "e", "\"", ":", "2", ",", "\"", "p", "a", "g", "e", "\"", ":", "\"", "x", "\"", "}">>
BodyTexts == {B_empty, B_object, B_page, B_notFound, B_mistyped}

\* What c.HTTPClient.Do can return for a request carrying ctx: with a context that
\* is already canceled, the cancellation error; otherwise a failure (timeout,
\* cancellation while pending) or any response, whose body may fail to read.
Outcomes(ctx) ==
    IF ctx = "canceled" THEN {Failed(CanceledError)}
    ELSE {Failed(TimeoutError), Failed(CanceledError)}
         \cup {Responded(s, Body(d, FALSE)) : s \in Statuses, d \in BodyTexts}
         \cup {Responded(s, Body(<<>>, TRUE)) : s \in Statuses}

AllOutcomes == UNION {Outcomes(ctx) : ctx \in Ctxs}

-----------------------------------------------------------------------------
(* The bindings. A binding call runs up to c.HTTPClient.Do (or returns before *)
(* it); the call completes when Do returns.                                   *)

DefaultPage == 1
DefaultPerPage == 5

\* Faulty variant: popular videos default to the page size of the other listings.
PopularPerPageAsOthers == DefaultPerPage

PopularPerPage == 2

\* if params.Page == 0 { params.Page = 1 }; if params.PerPage == 0 { params.PerPage = n }
ApplyDefaults(p, perPage) ==
    LET p1 == IF p.Page = 0 THEN [p EXCEPT !.Page = DefaultPage] ELSE p
    IN IF p1.PerPage = 0 THEN [p1 EXCEPT !.PerPage = perPage] ELSE p1

TheCall(op, ctx, p, id, shape, nreq) ==
    [op |-> op, ctx |-> ctx, params0 |-> p, id |-> id, shape |-> shape, nreq |-> nreq]

\* return nil, err before the request is handed to the transport.
ReturnEarly(g, c, pAfter, err) ==
    /\ pc' = [pc EXCEPT ![g] = "returned"]
    /\ call' = [call EXCEPT ![g] = c]
    /\ params' = [params EXCEPT ![g] = pAfter]
    /\ ret' = [ret EXCEPT ![g] = [resp |-> Nil, err |-> err]]
    /\ bindingCalls' = bindingCalls + 1
    /\ rejectedCalls' = rejectedCalls + 1
    /\ UNCHANGED <<client, req, got, transportCalls, encIn, encOut>>

\* c.sendRequest(ctx, req, &resp) up to res, err := c.HTTPClient.Do(req)
Do(g, c, pAfter, r) ==
    /\ pc' = [pc EXCEPT ![g] = "inflight"]
    /\ call' = [call EXCEPT ![g] = [c EXCEPT !.nreq = c.nreq + 1]]
    /\ params' = [params EXCEPT ![g] = pAfter]
    /\ req' = [req EXCEPT ![g] = r]
    /\ transportCalls' = transportCalls + 1
    /\ bindingCalls' = bindingCalls + 1
    /\ UNCHANGED <<client, got, ret, rejectedCalls, encIn, encOut>>

\* The headers every binding but the two searches sets.
JSONHeaders(r, c) ==
    HeaderSet(HeaderSet(HeaderSet(r, "Accept", ApplicationJSON),
                        "Content-Type", ApplicationJSON),
              "Authorization", c.ApiKey)

\* Faulty variant: the searches set Content-Type like the other bindings.
SearchHeadersWithContentType(r, c) ==
    HeaderSet(HeaderSet(HeaderSet(r, "Accept", ApplicationJSON),
                        "Content-Type", ApplicationJSON),
              "Authorization", c.ApiKey)

\* The headers GetPhotos and GetVideos set.
SearchHeaders(r, c) ==
    HeaderSet(HeaderSet(r, "Accept", ApplicationJSON), "Authorization", c.ApiKey)

Idle(g) == pc[g] = "idle" /\ bindingCalls < MaxCalls

\* Faulty variant: the empty-query guard is missing.
GetPhotosNoGuard(g, ctx, p) ==
    /\ Idle(g)
    /\ LET c == client
           pa == ApplyDefaults(p, DefaultPerPage)
           url == c.BaseURL \o c.Version \o <<"/", "s", "e", "a", "r", "c", "h", "?">>
                  \o Encode(structToURLValues(Reflect(GetPhotosParams, pa)))
           nr == NewRequest("GET", url)
           cl == TheCall("GetPhotos", ctx, p, NoID, "GetPhotoResponse", 0)
       IN IF nr.err # Nil THEN ReturnEarly(g, cl, pa, nr.err)
          ELSE Do(g, cl, pa, SearchHeaders(WithContext(nr.req, ctx), c))

GetPhotos(g, ctx, p) ==
    /\ Idle(g)
    /\ LET c == client
           pa == ApplyDefaults(p, DefaultPerPage)
           url == c.BaseURL \o c.Version \o <<"/", "s", "e", "a", "r", "c", "h", "?">>
                  \o Encode(structToURLValues(Reflect(GetPhotosParams, pa)))
           nr == NewRequest("GET", url)
           cl == TheCall("GetPhotos", ctx, p, NoID, "GetPhotoResponse", 0)
       IN IF pa.Query = <<>> THEN ReturnEarly(g, cl, pa, ValidationError)
          ELSE IF nr.err # Nil THEN ReturnEarly(g, cl, pa, nr.err)
          ELSE Do(g, cl, pa, SearchHeaders(WithContext(nr.req, ctx), c))

GetCurated(g, ctx, p) ==
    /\ Idle(g)
    /\ LET c == client
           pa == ApplyDefaults(p, DefaultPerPage)
           url == c.BaseURL \o c.Version \o <<"/", "c", "u", "r", "a", "t", "e", "d", "?">>
                  \o Encode(structToURLValues(Reflect(GetCuratedPhotoParams, pa)))
           nr == NewRequest("GET", url)
           cl == TheCall("GetCurated", ctx, p, NoID, "GetPhotoResponse", 0)
       IN IF nr.err # Nil THEN ReturnEarly(g, cl, pa, nr.err)
          ELSE Do(g, cl, pa, JSONHeaders(WithContext(nr.req, ctx), c))

GetPhoto(g, ctx, id) ==
    /\ Idle(g)
    /\ LET c == client
           url == c.BaseURL \o c.Version \o <<"/", "p", "h", "o", "t", "o", "s", "/">> \o id
           nr == NewRequest("GET", url)
           cl == TheCall("GetPhoto", ctx, NoParams, id, "Photo", 0)
       IN IF nr.err # Nil THEN ReturnEarly(g, cl, NoParams, nr.err)
          ELSE Do(g, cl, NoParams, JSONHeaders(WithContext(nr.req, ctx), c))

\* Faulty variant: the own flag does not change the path.
getCollectionsIgnoresOwn(g, ctx, p, own) ==
    /\ Idle(g)
    /\ LET c == client
           pa == ApplyDefaults(p, DefaultPerPage)
           enc == Encode(structToURLValues(Reflect(GetFeaturedCollectionParams, pa)))
           url == c.BaseURL \o c.Version \o <<"/", "c", "o", "l", "l", "e", "c", "t", "i", "o", "n", "s", "/", "f", "e", "a", "t", "u", "r", "e", "d", "?">> \o enc
           nr == NewRequest("GET", url)
           cl == TheCall(IF own THEN "GetUserCollections" ELSE "GetFeaturedCollections",
                         ctx, p, NoID, "GetCollectionsResponse", 0)
       IN IF nr.err # Nil THEN ReturnEarly(g, cl, pa, nr.err)
          ELSE Do(g, cl, pa, JSONHeaders(WithContext(nr.req, ctx), c))

getCollections(g, ctx, p, own) ==
    /\ Idle(g)
    /\ LET c == client
           pa == ApplyDefaults(p, DefaultPerPage)
           enc == Encode(structToURLValues(Reflect(GetFeaturedCollectionParams, pa)))
           url == IF own THEN c.BaseURL \o c.Version \o <<"/", "c", "o", "l", "l", "e", "c", "t", "i", "o", "n", "s", "?">> \o enc
                  ELSE c.BaseURL \o c.Version \o <<"/", "c", "o", "l", "l", "e", "c", "t", "i", "o", "n", "s", "/", "f", "e", "a", "t", "u", "r", "e", "d", "?">> \o enc
           nr == NewRequest("GET", url)
           cl == TheCall(IF own THEN "GetUserCollections" ELSE "GetFeaturedCollections",
                         ctx, p, NoID, "GetCollectionsResponse", 0)
       IN IF nr.err # Nil THEN ReturnEarly(g, cl, pa, nr.err)
          ELSE Do(g, cl, pa, JSONHeaders(WithContext(nr.req, ctx), c))

GetCollection(g, ctx, p, id) ==
    /\ Idle(g)
    /\ LET c == client
           pa == ApplyDefaults(p, DefaultPerPage)
           url == c.BaseURL \o c.Version \o <<"/", "c", "o", "l", "l", "e", "c", "t", "i", "o", "n", "s", "/">> \o id \o <<"?">>
                  \o Encode(structToURLValues(Reflect(GetCollectionMediaParams, pa)))
           nr == NewRequest("GET", url)
           cl == TheCall("GetCollection", ctx, p, id, "CollectionMedia", 0)
       IN IF nr.err # Nil THEN ReturnEarly(g, cl, pa, nr.err)
          ELSE Do(g, cl, pa, JSONHeaders(WithContext(nr.req, ctx), c))

GetFeaturedCollections(g, ctx, p) == getCollections(g, ctx, p, FALSE)

GetUserCollections(g, ctx, p) == getCollections(g, ctx, p, TRUE)

\* Faulty variant: the binding clears the client's version, since its path has none.
GetVideoWritesClient(g, ctx, id) ==
    /\ Idle(g)
    /\ LET c == [client EXCEPT !.Version = <<>>]
           url == c.BaseURL \o <<"/", "v", "i", "d", "e", "o", "s", "/", "v", "i", "d", "e", "o", "s", "/">> \o id
           nr == NewRequest("GET", url)
           r == JSONHeaders(WithContext(nr.req, ctx), c)
           cl == TheCall("GetVideo", ctx, NoParams, id, "Video", 1)
       IN /\ nr.err = Nil
          /\ client' = c
          /\ pc' = [pc EXCEPT ![g] = "inflight"]
          /\ call' = [call EXCEPT ![g] = cl]
          /\ params' = [params EXCEPT ![g] = NoParams]
          /\ req' = [req EXCEPT ![g] = r]
          /\ transportCalls' = transportCalls + 1
          /\ bindingCalls' = bindingCalls + 1
          /\ UNCHANGED <<got, ret, rejectedCalls, encIn, encOut>>

GetVideo(g, ctx, id) ==
    /\ Idle(g)
    /\ LET c == client
           url == c.BaseURL \o <<"/", "v", "i", "d", "e", "o", "s", "/", "v", "i", "d", "e", "o", "s", "/">> \o id
           nr == NewRequest("GET", url)
           cl == TheCall("GetVideo", ctx, NoParams, id, "Video", 0)
       IN IF nr.err # Nil THEN ReturnEarly(g, cl, NoParams, nr.err)
          ELSE Do(g, cl, NoParams, JSONHeaders(WithContext(nr.req, ctx), c))

GetPopularVideos(g, ctx, p) ==
    /\ Idle(g)
    /\ LET c == client
           pa == ApplyDefaults(p, PopularPerPage)
           url == c.BaseURL \o <<"v", "i", "d", "e", "o", "s", "/", "p", "o", "p", "u", "l", "a", "r", "?">>
                  \o Encode(structToURLValues(Reflect(GetPopularVideosParams, pa)))
           nr == NewRequest("GET", url)
           cl == TheCall("GetPopularVideos", ctx, p, NoID, "GetVideosResponse", 0)
       IN IF nr.err # Nil THEN ReturnEarly(g, cl, pa, nr.err)
          ELSE Do(g, cl, pa, JSONHeaders(WithContext(nr.req, ctx), c))

\* Faulty variant: the video search path carries the version like the photo search.
GetVideosWithVersion(g, ctx, p) ==
    /\ Idle(g)
    /\ LET c == client
           pa == ApplyDefaults(p, DefaultPerPage)
           url == c.BaseURL \o c.Version \o <<"/", "v", "i", "d", "e", "o", "s", "/", "s", "e", "a", "r", "c", "h", "?">>
                  \o Encode(structToURLValues(Reflect(GetVideosParams, pa)))
           nr == NewRequest("GET", url)
           cl == TheCall("GetVideos", ctx, p, NoID, "GetVideosResponse", 0)
       IN IF pa.Query = <<>> THEN ReturnEarly(g, cl, pa, ValidationError)
          ELSE IF nr.err # Nil THEN ReturnEarly(g, cl, pa, nr.err)
          ELSE Do(g, cl, pa, SearchHeaders(WithContext(nr.req, ctx), c))

GetVideos(g, ctx, p) ==
    /\ Idle(g)
    /\ LET c == client
           pa == ApplyDefaults(p, DefaultPerPage)
           url == c.BaseURL \o <<"/", "v", "i", "d", "e", "o", "s", "/", "s", "e", "a", "r", "c", "h", "?">>
                  \o Encode(structToURLValues(Reflect(GetVideosParams, pa)))
           nr == NewRequest("GET", url)
           cl == TheCall("GetVideos", ctx, p, NoID, "GetVideosResponse", 0)
       IN IF pa.Query = <<>> THEN ReturnEarly(g, cl, pa, ValidationError)
          ELSE IF nr.err # Nil THEN ReturnEarly(g, cl, pa, nr.err)
          ELSE Do(g, cl, pa, SearchHeaders(WithContext(nr.req, ctx), c))

\* Faulty variant: a response with an error status is retried once more.
DoReturnsRetry(g, oc) ==
    /\ pc[g] = "inflight"
    /\ oc \in Outcomes(call[g].ctx)
    /\ IF oc.err = Nil /\ IsErrorStatus(oc.res.StatusCode) /\ call[g].nreq < 2
       THEN /\ call' = [call EXCEPT ![g].nreq = call[g].nreq + 1]
            /\ transportCalls' = transportCalls + 1
            /\ UNCHANGED <<pc, got, ret, req>>
       ELSE /\ pc' = [pc EXCEPT ![g] = "returned"]
            /\ got' = [got EXCEPT ![g] = oc]
            /\ ret' = [ret EXCEPT ![g] =
                          BindingResult(sendRequest(oc, ZeroValue(call[g].shape)))]
            /\ req' = [req EXCEPT ![g] = NoReq]
            /\ UNCHANGED <<call, transportCalls>>
    /\ UNCHANGED <<client, params, bindingCalls, rejectedCalls, encIn, encOut>>

\* c.HTTPClient.Do returns `oc` to caller g; sendRequest and the binding finish.
DoReturns(g, oc) ==
    /\ pc[g] = "inflight"
    /\ oc \in Outcomes(call[g].ctx)
    /\ pc' = [pc EXCEPT ![g] = "returned"]
    /\ got' = [got EXCEPT ![g] = oc]
    /\ ret' = [ret EXCEPT ![g] = BindingResult(sendRequest(oc, ZeroValue(call[g].shape)))]
    /\ req' = [req EXCEPT ![g] = NoReq]
    /\ UNCHANGED <<client, call, params, transportCalls, bindingCalls, rejectedCalls,
                   encIn, encOut>>

\* The caller is done with the result and its parameter record.
Discard(g) ==
    /\ pc[g] = "returned"
    /\ pc' = [pc EXCEPT ![g] = "idle"]
    /\ call' = [call EXCEPT ![g] = NoCall]
    /\ params' = [params EXCEPT ![g] = NoParams]
    /\ got' = [got EXCEPT ![g] = NoOutcome]
    /\ ret' = [ret EXCEPT ![g] = NoRet]
    /\ UNCHANGED <<client, req, transportCalls, bindingCalls, rejectedCalls,
                   encIn, encOut>>

-----------------------------------------------------------------------------
(* One caller, calls made one after the other.                                *)

InitFor(callers) ==
    /\ client = NewClient(TheApiKey)
    /\ pc = [g \in callers |-> "idle"]
    /\ call = [g \in callers |-> NoCall]
    /\ params = [g \in callers |-> NoParams]
    /\ req = [g \in callers |-> NoReq]
    /\ got = [g \in callers |-> NoOutcome]
    /\ ret = [g \in callers |-> NoRet]
    /\ transportCalls = 0
    /\ bindingCalls = 0
    /\ rejectedCalls = 0

EncIdle == [done |-> FALSE, val |-> EmptyValues]

Init == InitFor({1}) /\ encIn = <<>> /\ encOut = EncIdle

Next ==
    \E g \in {1} :
        \/ \E ctx \in Ctxs, p \in PhotoInputs : GetPhotos(g, ctx, p)
        \/ \E ctx \in Ctxs, p \in PageInputs : GetCurated(g, ctx, p)
        \/ \E ctx \in Ctxs, id \in IDs : GetPhoto(g, ctx, id)
        \/ \E ctx \in Ctxs, p \in PageInputs : GetFeaturedCollections(g, ctx, p)
        \/ \E ctx \in Ctxs, p \in PageInputs : GetUserCollections(g, ctx, p)
        \/ \E ctx \in Ctxs, p \in MediaInputs, id \in IDs : GetCollection(g, ctx, p, id)
        \/ \E ctx \in Ctxs, id \in IDs : GetVideo(g, ctx, id)
        \/ \E ctx \in Ctxs, p \in PopularInputs : GetPopularVideos(g, ctx, p)
        \/ \E ctx \in Ctxs, p \in VideoInputs : GetVideos(g, ctx, p)
        \/ \E oc \in AllOutcomes : DoReturns(g, oc)
        \/ Discard(g)

Spec == Init /\ [][Next]_vars

-----------------------------------------------------------------------------
(* Several callers sharing one client, their calls interleaved.               *)

ConcCallers == 1..NumCallers
ConcPages == [Page : {0}, PerPage : {0}]
ConcPhoto ==
    [Query : {<<"c", "a", "t">>}, Orientation : {<<>>}, Size : {<<>>}, Color : {<<>>},
     Locale : {<<>>}, Page : {0}, PerPage : {10}]
ConcVideo ==
    [Query : {<<"c", "a", "t">>}, Orientation : {<<>>}, Size : {<<>>}, Locale : {<<>>},
     Page : {0}, PerPage : {10}]
ConcMedia == [Type : {<<>>}, Sort : {<<>>}, Page : {0}, PerPage : {10}]
ConcPopular ==
    [MinWidth : {0}, MinHeight : {0}, MinDuration : {0}, MaxDuration : {0},
     Page : {0}, PerPage : {0}]
ConcIDs == {<<"4", "2">>}
ConcOutcomes ==
    {Failed(TimeoutError), Responded(404, Body(B_notFound, FALSE)),
     Responded(200, Body(B_object, FALSE))}

InitConc == InitFor(ConcCallers) /\ encIn = <<>> /\ encOut = EncIdle

NextConc ==
    \E g \in ConcCallers :
        \/ \E p \in ConcPhoto : GetPhotos(g, "background", p)
        \/ \E p \in ConcPages : GetCurated(g, "background", p)
        \/ \E id \in ConcIDs : GetPhoto(g, "background", id)
        \/ \E p \in ConcPages : GetFeaturedCollections(g, "background", p)
        \/ \E p \in ConcPages : GetUserCollections(g, "background", p)
        \/ \E p \in ConcMedia, id \in ConcIDs : GetCollection(g, "background", p, id)
        \/ \E id \in ConcIDs : GetVideo(g, "background", id)
        \/ \E p \in ConcPopular : GetPopularVideos(g, "background", p)
        \/ \E p \in ConcVideo : GetVideos(g, "background", p)
        \/ \E oc \in ConcOutcomes : DoReturns(g, oc)
        \/ Discard(g)

SpecConc == InitConc /\ [][NextConc]_vars

-----------------------------------------------------------------------------
(* The parameter encoder on its own: a struct is drawn, structToURLValues is  *)
(* applied to it.                                                             *)

EncStrVals == {<<>>, <<"a", " ", "&">>, <<"=", "%", "+">>}
EncIntVals == ((0 - 1)..MaxPage) \cup {10}

\* A struct outside the package: a field with no url tag, a bool field, an int.
T_flag == <<"f", "l", "a", "g">>
T_n == <<"n">>
OtherStructs ==
    { << [tag |-> <<>>, kind |-> "string", val |-> s],
         [tag |-> T_flag, kind |-> "bool", val |-> b],
         [tag |-> T_n, kind |-> "int", val |-> n],
         [tag |-> <<>>, kind |-> "int", val |-> n] >> :
      s \in EncStrVals, b \in BOOLEAN, n \in EncIntVals }

EncInputs ==
    {Reflect(GetPhotosParams, r) :
        r \in [Query : EncStrVals, Orientation : EncStrVals, Size : EncStrVals,
               Color : EncStrVals, Locale : EncStrVals, Page : EncIntVals,
               PerPage : {0, 10}]}
    \cup {Reflect(GetCollectionMediaParams, r) :
        r \in [Type : EncStrVals, Sort : EncStrVals, Page : EncIntVals,
               PerPage : EncIntVals]}
    \cup {Reflect(GetPopularVideosParams, r) :
        r \in [MinWidth : {0, 10}, MinHeight : {0, 10}, MinDuration : {0, 10},
               MaxDuration : {0, 10}, Page : EncIntVals, PerPage : {0, 10}]}
    \cup OtherStructs

InitEnc == InitFor({1}) /\ encIn \in EncInputs /\ encOut = EncIdle

ApplyEncoder ==
    /\ ~encOut.done
    /\ encOut' = [done |-> TRUE, val |-> structToURLValues(encIn)]
    /\ UNCHANGED <<mainVars, encIn>>

\* The .Encode() the bindings call on the mapping to form the query string.
EncodeValues ==
    /\ encOut.done
    /\ "query" \notin DOMAIN encOut
    /\ encOut' = [done |-> TRUE, val |-> encOut.val, query |-> Encode(encOut.val)]
    /\ UNCHANGED <<mainVars, encIn>>

NextEnc == ApplyEncoder \/ EncodeValues

SpecEnc == InitEnc /\ [][NextEnc]_vars

-----------------------------------------------------------------------------
(* Properties.                                                                *)

Callers == DOMAIN pc

SearchOps == {"GetPhotos", "GetVideos"}

ListOps == {"GetPhotos", "GetCurated", "GetVideos", "GetPopularVideos",
            "GetFeaturedCollections", "GetUserCollections", "GetCollection"}

\* Caller g's call has returned after the transport handed back a response whose
\* body could be read to its end.
GotResponse(g) ==
    /\ pc[g] = "returned"
    /\ call[g].nreq > 0
    /\ got[g].err = Nil
    /\ ~got[g].res.Body.fail

StatusOf(g) == got[g].res.StatusCode
BodyOf(g) == got[g].res.Body.data

\* Some run of digits of s is the decimal text of n.
ContainsDecimal(s, n) ==
    \E i \in 1..Len(s) : \E j \in i..Len(s) :
        AllDigits(SubSeq(s, i, j)) /\ DigitsToNat(SubSeq(s, i, j)) = n

\* The "k=v" pieces of the query of a request URL.
QueryParts(url) == Range(Split(URLRawQuery(url), "&"))

(* C1: a GetPhotos or GetVideos call whose params.Query is empty returns, in   *)
(* the step that makes the call, a validation error and a nil response, hands *)
(* no request to the transport and leaves the transport's call counter as it  *)
(* was, whatever the other fields and the context are.                        *)
C1_EmptyQueryRejected ==
    [][\A g \in Callers :
         (/\ pc[g] = "idle"
          /\ pc'[g] # "idle"
          /\ call'[g].op \in SearchOps
          /\ call'[g].params0.Query = <<>>)
         => /\ pc'[g] = "returned"
            /\ ret'[g].err.kind = "validation"
            /\ ret'[g].resp = Nil
            /\ req'[g] = NoReq
            /\ call'[g].nreq = 0
            /\ transportCalls' = transportCalls]_vars

C1_Witness ==
    \E g \in Callers :
        /\ pc[g] = "returned"
        /\ call[g].op = "GetVideos"
        /\ call[g].ctx = "canceled"
        /\ call[g].params0.Query = <<>>
        /\ call[g].params0.Size # <<>>
        /\ ret[g].err = ValidationError

(* C2: every request a list-shape binding hands to the transport carries      *)
(* page=1 when params.Page was 0, and per_page=5 (per_page=2 for              *)
(* GetPopularVideos) when params.PerPage was 0; it always carries a page and  *)
(* a per_page key.                                                            *)
C2_PaginationDefaults ==
    \A g \in Callers :
        (pc[g] = "inflight" /\ call[g].op \in ListOps)
        => LET parts == QueryParts(req[g].url)
               p0 == call[g].params0
           IN /\ p0.Page = 0 => <<"p", "a", "g", "e", "=", "1">> \in parts
              /\ (p0.PerPage = 0 /\ call[g].op # "GetPopularVideos")
                    => <<"p", "e", "r", "_", "p", "a", "g", "e", "=", "5">> \in parts
              /\ (p0.PerPage = 0 /\ call[g].op = "GetPopularVideos")
                    => <<"p", "e", "r", "_", "p", "a", "g", "e", "=", "2">> \in parts
              /\ \E part \in parts : HasPrefix(part, <<"p", "a", "g", "e", "=">>)
              /\ \E part \in parts : HasPrefix(part, <<"p", "e", "r", "_", "p", "a", "g", "e", "=">>)

C2_Witness ==
    \E g \in Callers :
        /\ pc[g] = "inflight"
        /\ call[g].op = "GetPopularVideos"
        /\ call[g].params0.Page = 0
        /\ call[g].params0.PerPage = 0
        /\ <<"p", "e", "r", "_", "p", "a", "g", "e", "=", "2">> \in QueryParts(req[g].url)

(* C3: when the transport hands back a response with status below 200 or at   *)
(* least 400 and body b, the call returns an error whose message contains the *)
(* decimal status and the whole of b, returns a nil response, and has sent    *)
(* exactly one request.                                                       *)
C3_ErrorStatusReported ==
    \A g \in Callers :
        (GotResponse(g) /\ (StatusOf(g) < 200 \/ StatusOf(g) >= 400))
        => /\ ret[g].err # Nil
           /\ ContainsDecimal(ret[g].err.msg, StatusOf(g))
           /\ Contains(ret[g].err.msg, BodyOf(g))
           /\ ret[g].resp = Nil
           /\ call[g].nreq = 1

C3_Witness ==
    \E g \in Callers :
        /\ GotResponse(g)
        /\ call[g].op = "GetVideo"
        /\ StatusOf(g) = 404
        /\ BodyOf(g) = B_notFound
        /\ Contains(ret[g].err.msg, <<"4", "0", "4", " ", "N", "o", "t", " ", "f", "o", "u", "n", "d">>)

(* C4, as stated: every response with a status outside 200..299 yields an     *)
(* error carrying the status and the raw body, and a response value is        *)
(* produced only for a 2xx status.                                            *)
C4_Non2xxIsError ==
    \A g \in Callers :
        GotResponse(g)
        => /\ StatusOf(g) \notin 200..299
                => /\ ret[g].err.kind = "api"
                   /\ ContainsDecimal(ret[g].err.msg, StatusOf(g))
                   /\ Contains(ret[g].err.msg, BodyOf(g))
           /\ ret[g].resp # Nil => StatusOf(g) \in 200..299

(* C4, amended: a status below 200 or at least 400 yields the error carrying  *)
(* the status and the raw body; a status in 200..399 never yields that error, *)
(* its body is decoded into the response shape, and a response value is       *)
(* produced only for a status in 200..399.                                    *)
C4_ErrorOutside200To399 ==
    \A g \in Callers :
        GotResponse(g)
        => /\ (StatusOf(g) < 200 \/ StatusOf(g) >= 400)
                => /\ ret[g].err.kind = "api"
                   /\ ContainsDecimal(ret[g].err.msg, StatusOf(g))
                   /\ Contains(ret[g].err.msg, BodyOf(g))
           /\ StatusOf(g) \in 200..399
                => /\ ret[g].err.kind # "api"
                   /\ BodyOf(g) \in {B_object, B_page} => ret[g].resp # Nil
                   /\ (BodyOf(g) = B_page /\ ret[g].resp # Nil
                       /\ "Page" \in DOMAIN ret[g].resp) => ret[g].resp.Page = 2
           /\ ret[g].resp # Nil => StatusOf(g) \in 200..399

C4_Witness ==
    \E g \in Callers :
        /\ GotResponse(g)
        /\ StatusOf(g) = 300
        /\ BodyOf(g) = B_page
        /\ ret[g].err = Nil
        /\ ret[g].resp = [shape |-> "GetPhotoResponse", Page |-> 2]

\* v is the canonical decimal text of the integer n.
IsDecimalOf(v, n) ==
    LET digits == IF n < 0 THEN Tail(v) ELSE v
    IN /\ v # <<>>
       /\ n < 0 <=> v[1] = "-"
       /\ AllDigits(digits)
       /\ (Len(digits) > 1 => digits[1] # "0")
       /\ DigitsToNat(digits) = (IF n < 0 THEN 0 - n ELSE n)

\* The field carries a url annotation and a non-zero string or integer.
Contributes(f) ==
    /\ f.tag # <<>>
    /\ \/ (f.kind = "string" /\ f.val # <<>>)
       \/ (f.kind = "int" /\ f.val # 0)

(* C5: the mapping structToURLValues returns has exactly the keys annotated   *)
(* on fields that hold a non-empty string or a non-zero integer, each with    *)
(* the string itself or the integer's decimal text; empty strings, zero       *)
(* integers and fields without an annotation contribute no key.               *)
C5_EncoderKeys ==
    encOut.done
    => LET val == encOut.val
           idx == {i \in 1..Len(encIn) : Contributes(encIn[i])}
       IN /\ DOMAIN val = {encIn[i].tag : i \in idx}
          /\ \A i \in idx :
                IF encIn[i].kind = "string" THEN val[encIn[i].tag] = encIn[i].val
                ELSE IsDecimalOf(val[encIn[i].tag], encIn[i].val)

C5_Witness ==
    /\ encOut.done
    /\ Len(encIn) = 4
    /\ encIn[1].tag = <<>> /\ encIn[1].val # <<>>
    /\ encIn[3].val = 0 - 1
    /\ encIn[4].tag = <<>>
    /\ DOMAIN encOut.val = {T_n}
    /\ encOut.val[T_n] = <<"-", "1">>

NoneInFlight == \A g \in Callers : pc[g] # "inflight"

(* C6, as stated: whenever no call is in progress, the number of requests     *)
(* handed to the transport equals the number of binding calls made.           *)
C6_RequestsEqualCalls == NoneInFlight => transportCalls = bindingCalls

(* C6, amended: a binding call calls HTTPClient.Do at most once: not at all    *)
(* when it ends before dispatch (the validation error, a request that cannot  *)
(* be built), exactly once otherwise, whatever the transport answers; so the  *)
(* number of requests issued equals the number of calls that were not         *)
(* rejected before dispatch.                                                  *)
C6_AtMostOneRequestPerCall ==
    /\ transportCalls = bindingCalls - rejectedCalls
    /\ \A g \in Callers :
          /\ pc[g] = "inflight" => call[g].nreq = 1
          /\ pc[g] = "returned" =>
                call[g].nreq = (IF ret[g].err.kind \in {"validation", "newrequest"}
                                THEN 0 ELSE 1)

C6_Witness ==
    /\ bindingCalls = 3
    /\ transportCalls = 2
    /\ rejectedCalls = 1
    /\ \E g \in Callers : GotResponse(g) /\ StatusOf(g) = 400

(* C7: a binding that returns a non-nil error returns a nil response, one     *)
(* that returns a nil error returns a non-nil response, and a 2xx response    *)
(* whose JSON body decodes yields a non-nil response with a nil error.        *)
C7_ResponseXorError ==
    \A g \in Callers :
        pc[g] = "returned"
        => /\ ret[g].err # Nil <=> ret[g].resp = Nil
           /\ (GotResponse(g) /\ StatusOf(g) \in 200..299
               /\ BodyOf(g) \in {B_object, B_page})
                 => (ret[g].resp # Nil /\ ret[g].err = Nil)

C7_Witness ==
    \E g \in Callers :
        /\ GotResponse(g)
        /\ call[g].op = "GetCollection"
        /\ StatusOf(g) = 299
        /\ BodyOf(g) = B_object
        /\ ret[g] = [resp |-> [shape |-> "CollectionMedia"], err |-> Nil]

SameArguments(g, h) ==
    /\ call[g].op = call[h].op
    /\ call[g].ctx = call[h].ctx
    /\ call[g].params0 = call[h].params0
    /\ call[g].id = call[h].id

(* C8: with several callers sharing one client, the client's fields always    *)
(* equal what NewClient set; every request in flight carries the client's     *)
(* key and base URL, and two calls made with the same arguments build the     *)
(* same request.                                                              *)
C8_ClientReadOnly ==
    /\ client = NewClient(TheApiKey)
    /\ \A g \in Callers :
          pc[g] = "inflight"
          => /\ req[g].header["Authorization"] = TheApiKey
             /\ HasPrefix(req[g].url, BaseURL)
             /\ \A h \in Callers :
                   (pc[h] = "inflight" /\ SameArguments(g, h)) => req[h] = req[g]

C8_Witness ==
    \E g \in Callers : \E h \in Callers \ {g} :
        /\ pc[g] = "inflight"
        /\ pc[h] = "inflight"
        /\ call[g].op = "GetVideo"
        /\ SameArguments(g, h)
        /\ bindingCalls = 3

(* C9, as stated: when a binding has returned, the caller's parameter record  *)
(* holds in every field the value it held when the call was made.             *)
C9_ParamsUnchanged ==
    \A g \in Callers :
        (pc[g] = "returned" /\ call[g].op \in ListOps) => params[g] = call[g].params0

(* C10: GetFeaturedCollections requests {version}/collections/featured and    *)
(* GetUserCollections requests {version}/collections; made with equal         *)
(* arguments, the two build the same query string, defaults, method and       *)
(* headers, and given the same transport outcome they return the same         *)
(* response shape and error.                                                  *)
C10_CollectionsRouting ==
    \A g \in Callers :
        /\ (pc[g] = "inflight" /\ call[g].op = "GetFeaturedCollections")
              => URLPath(req[g].url)
                   = client.BaseURL \o client.Version \o <<"/", "c", "o", "l", "l", "e", "c", "t", "i", "o", "n", "s", "/", "f", "e", "a", "t", "u", "r", "e", "d">>
        /\ (pc[g] = "inflight" /\ call[g].op = "GetUserCollections")
              => URLPath(req[g].url) = client.BaseURL \o client.Version \o <<"/", "c", "o", "l", "l", "e", "c", "t", "i", "o", "n", "s">>
        /\ \A h \in Callers :
              (/\ call[g].op = "GetFeaturedCollections"
               /\ call[h].op = "GetUserCollections"
               /\ call[g].ctx = call[h].ctx
               /\ call[g].params0 = call[h].params0)
              => /\ params[g] = params[h]
                 /\ call[g].shape = call[h].shape
                 /\ call[g].nreq = call[h].nreq
                 /\ (pc[g] = "inflight" /\ pc[h] = "inflight")
                       => /\ URLRawQuery(req[g].url) = URLRawQuery(req[h].url)
                          /\ req[g].header = req[h].header
                          /\ req[g].method = req[h].method
                 /\ (pc[g] = "returned" /\ pc[h] = "returned" /\ got[g] = got[h])
                       => ret[g] = ret[h]

C10_Witness ==
    \E g \in Callers : \E h \in Callers :
        /\ call[g].op = "GetFeaturedCollections"
        /\ call[h].op = "GetUserCollections"
        /\ call[g].params0 = call[h].params0
        /\ call[g].params0.PerPage = 0
        /\ pc[g] = "returned"
        /\ pc[h] = "returned"
        /\ got[g] = got[h]
        /\ got[g].err = Nil
        /\ StatusOf(g) = 404

\* The value of a hexadecimal digit.
HexVal(ch) ==
    IF IsDigit(ch) THEN DigitVal(ch)
    ELSE IF Code(ch) >= 97 THEN Code(ch) - 87
    ELSE Code(ch) - 55

\* Whether every "%" of s starts a two-digit hexadecimal escape.
EscapesOK(s) ==
    \A i \in 1..Len(s) :
        s[i] = "%" => (i + 2 <= Len(s) /\ IsHex(s[i + 1]) /\ IsHex(s[i + 2]))

\* url.QueryUnescape of a text whose escapes are well formed: "+" is a space,
\* "%XX" the character with that code, anything else itself.
QueryUnescape(s) ==
    LET used == {i \in 1..Len(s) :
                    (i > 1 /\ s[i - 1] = "%") \/ (i > 2 /\ s[i - 2] = "%")}
        keep == (1..Len(s)) \ used
        at(k) == CHOOSE i \in keep : Cardinality({j \in keep : j <= i}) = k
        ch(i) == IF s[i] = "+" THEN " "
                 ELSE IF s[i] = "%"
                      THEN Printable[16 * HexVal(s[i + 1]) + HexVal(s[i + 2]) - 31]
                 ELSE s[i]
    IN [k \in 1..Cardinality(keep) |-> ch(at(k))]

\* The text before and after the first "=" of a "k=v" piece.
PieceKey(piece) == Split(piece, "=")[1]
PieceValue(piece) ==
    IF Len(PieceKey(piece)) = Len(piece) THEN <<>>
    ELSE SubSeq(piece, Len(PieceKey(piece)) + 2, Len(piece))

RECURSIVE ParsePieces(_, _)
ParsePieces(pieces, m) ==
    IF pieces = <<>> THEN m
    ELSE IF pieces[1] = <<>> THEN ParsePieces(Tail(pieces), m)
    ELSE LET k == QueryUnescape(PieceKey(pieces[1]))
             v == QueryUnescape(PieceValue(pieces[1]))
             old == IF k \in DOMAIN m THEN m[k] ELSE <<>>
         IN ParsePieces(Tail(pieces),
                        [x \in (DOMAIN m) \cup {k} |->
                            IF x = k THEN Append(old, v) ELSE m[x]])

\* url.ParseQuery: for each key the values given for it, in order; an error when
\* an escape is malformed.
ParseQuery(q) ==
    IF ~EscapesOK(q) THEN [err |-> Err("parse", <<>>), values |-> EmptyValues]
    ELSE [err |-> Nil, values |-> ParsePieces(Split(q, "&"), EmptyValues)]

\* The parsed query m holds exactly the annotated non-zero fields of the struct
\* s, each once, with the field's string or the decimal text of its integer.
HoldsNonZeroFields(m, s) ==
    LET idx == {i \in 1..Len(s) : Contributes(s[i])}
    IN /\ DOMAIN m = {s[i].tag : i \in idx}
       /\ \A i \in idx :
             /\ Len(m[s[i].tag]) = 1
             /\ IF s[i].kind = "string" THEN m[s[i].tag][1] = s[i].val
                ELSE IsDecimalOf(m[s[i].tag][1], s[i].val)

\* The parameter struct type of each binding that encodes one.
ParamsType(op) ==
    IF op = "GetPhotos" THEN GetPhotosParams
    ELSE IF op = "GetCurated" THEN GetCuratedPhotoParams
    ELSE IF op = "GetVideos" THEN GetVideosParams
    ELSE IF op = "GetPopularVideos" THEN GetPopularVideosParams
    ELSE IF op = "GetCollection" THEN GetCollectionMediaParams
    ELSE GetFeaturedCollectionParams

\* The path of the endpoint table for a call by client c.
TablePath(c, op, id) ==
    IF op = "GetPhotos" THEN c.Version \o <<"/", "s", "e", "a", "r", "c", "h">>
    ELSE IF op = "GetCurated" THEN c.Version \o <<"/", "c", "u", "r", "a", "t", "e", "d">>
    ELSE IF op = "GetPhoto" THEN c.Version \o <<"/", "p", "h", "o", "t", "o", "s", "/">> \o id
    ELSE IF op = "GetVideos" THEN <<"/", "v", "i", "d", "e", "o", "s", "/", "s", "e", "a", "r", "c", "h">>
    ELSE IF op = "GetPopularVideos" THEN <<"v", "i", "d", "e", "o", "s", "/", "p", "o", "p", "u", "l", "a", "r">>
    ELSE IF op = "GetVideo" THEN <<"/", "v", "i", "d", "e", "o", "s", "/", "v", "i", "d", "e", "o", "s", "/">> \o id
    ELSE IF op = "GetFeaturedCollections" THEN c.Version \o <<"/", "c", "o", "l", "l", "e", "c", "t", "i", "o", "n", "s", "/", "f", "e", "a", "t", "u", "r", "e", "d">>
    ELSE IF op = "GetUserCollections" THEN c.Version \o <<"/", "c", "o", "l", "l", "e", "c", "t", "i", "o", "n", "s">>
    ELSE c.Version \o <<"/", "c", "o", "l", "l", "e", "c", "t", "i", "o", "n", "s", "/">> \o id

(* C11: the URL of every request handed to the transport is the client's base *)
(* URL immediately followed by the endpoint table's path, with the caller's   *)
(* id copied as given (also when empty); photo-by-ID and video-by-ID end      *)
(* there, every other operation appends "?" and the encoding of its           *)
(* parameters, which parses back to their non-zero fields.                    *)
C11_EndpointTable ==
    \A g \in Callers :
        pc[g] = "inflight"
        => LET u == req[g].url
               head == client.BaseURL \o TablePath(client, call[g].op, call[g].id)
           IN IF call[g].op \in {"GetPhoto", "GetVideo"} THEN u = head
              ELSE /\ HasPrefix(u, head \o <<"?">>)
                   /\ LET q == SubSeq(u, Len(head) + 2, Len(u))
                      IN /\ ParseQuery(q).err = Nil
                         /\ HoldsNonZeroFields(ParseQuery(q).values,
                                               Reflect(ParamsType(call[g].op), params[g]))

C11_Witness ==
    \E g \in Callers :
        /\ pc[g] = "inflight"
        /\ call[g].op = "GetVideo"
        /\ call[g].id = <<>>
        /\ req[g].url = <<"h", "t", "t", "p", "s", ":", "/", "/", "a", "p", "i", ".", "p", "e", "x", "e", "l", "s", ".", "c", "o", "m", "/", "/", "v", "i", "d", "e", "o", "s", "/", "v", "i", "d", "e", "o", "s", "/">>

(* C12: every request handed to the transport carries Accept:                 *)
(* application/json and an Authorization header that is exactly the client's  *)
(* API key; Content-Type: application/json is set by every binding except     *)
(* GetPhotos and GetVideos, whose requests carry no Content-Type; no other    *)
(* header is set.                                                             *)
C12_Headers ==
    \A g \in Callers :
        pc[g] = "inflight"
        => LET h == req[g].header
           IN /\ "Accept" \in DOMAIN h /\ h["Accept"] = <<"a", "p", "p", "l", "i", "c", "a", "t", "i", "o", "n", "/", "j", "s", "o", "n">>
              /\ "Authorization" \in DOMAIN h /\ h["Authorization"] = client.ApiKey
              /\ call[g].op \in SearchOps => "Content-Type" \notin DOMAIN h
              /\ call[g].op \notin SearchOps
                    => ("Content-Type" \in DOMAIN h
                        /\ h["Content-Type"] = <<"a", "p", "p", "l", "i", "c", "a", "t", "i", "o", "n", "/", "j", "s", "o", "n">>)
              /\ DOMAIN h \subseteq {"Accept", "Authorization", "Content-Type"}

C12_Witness ==
    \E g \in Callers :
        /\ pc[g] = "inflight"
        /\ call[g].op = "GetPhotos"
        /\ DOMAIN req[g].header = {"Accept", "Authorization"}
        /\ req[g].header["Authorization"] = <<"K", "E", "Y">>

(* C13: when the transport fails (timeout, connection failure, cancellation   *)
(* or deadline of the context), the step in which the binding returns hands   *)
(* back that very error value and a nil response, reads no body, issues no    *)
(* further request and leaves no request pending for the call.                *)
C13_TransportErrorReturned ==
    [][\A g \in Callers :
          (pc[g] = "inflight" /\ pc'[g] = "returned" /\ got'[g].err # Nil)
          => /\ ret'[g] = [resp |-> Nil, err |-> got'[g].err]
             /\ got'[g].res = Nil
             /\ req'[g] = NoReq
             /\ call'[g].nreq = 1
             /\ transportCalls' = transportCalls]_vars

C13_Witness ==
    \E g \in Callers :
        /\ pc[g] = "returned"
        /\ call[g].ctx = "background"
        /\ call[g].nreq = 1
        /\ got[g] = Failed(CanceledError)
        /\ ret[g].err = CanceledError
        /\ req[g] = NoReq

(* C14: encoding the mapping structToURLValues builds from a parameter record *)
(* (the photo-search record among them) and parsing the query string back     *)
(* gives exactly the record's non-zero annotated fields, each once and with   *)
(* its original value (an integer as its decimal text), and no other key.     *)
C14_RoundTrip ==
    "query" \in DOMAIN encOut
    => /\ ParseQuery(encOut.query).err = Nil
       /\ HoldsNonZeroFields(ParseQuery(encOut.query).values, encIn)

C14_Witness ==
    /\ "query" \in DOMAIN encOut
    /\ Len(encIn) = 7
    /\ encIn[1].tag = T_query /\ encIn[1].val = <<"=", "%", "+">>
    /\ encIn[2].val = <<"a", " ", "&">>
    /\ encIn[6].val = 0
    /\ encOut.query = <<"o", "r", "i", "e", "n", "t", "a", "t", "i", "o", "n", "=", "a", "+", "%", "2", "6", "&", "p", "e", "r", "_", "p", "a", "g", "e", "=", "1", "0", "&", "q", "u", "e", "r", "y", "=", "%", "3", "D", "%", "2", "5", "%", "2", "B">>
    /\ DOMAIN ParseQuery(encOut.query).values = {T_orientation, T_per_page, T_query}
    /\ ParseQuery(encOut.query).values[T_query] = <<encIn[1].val>>

\* The body is not JSON of the shape the call decodes into.
Malformed(body, shape) ==
    \/ body \in {B_empty, B_notFound}
    \/ body = B_mistyped /\ "Page" \in DOMAIN ZeroValue(shape)

=============================================================================
